---- MODULE Spec2Model ----
(***************************************************************************)
(* Model of tools/effectiveT3/effectiveT3.py, the Galaxy wrapper around    *)
(* the Effective T3 command line tool.                                     *)
(*                                                                         *)
(* Python strings are modelled as sequences of one-character strings, so   *)
(* that startswith, count, rstrip, rsplit, split, strip, lower and float   *)
(* are computed character by character as the interpreter computes them.   *)
(* A text file is the sequence of its lines, each with its line ending.    *)
(***************************************************************************)
EXTENDS Integers, Sequences, FiniteSets, TLC

VARIABLES
    pc,            \* position of the script
    argv,          \* sys.argv
    temp_file,     \* the file at <output>.tmp: [exists, lines]
    tabular_file,  \* the file at the output path: [exists, lines]
    return_code,   \* child.returncode
    stdout,        \* captured stdout of the child
    stderr,        \* captured stderr of the child
    produced,      \* whether the child wrote its output file in this run
    idx,           \* position of the "for line in raw_handle" loop
    count,         \* clean_tabular's count
    positive,      \* clean_tabular's positive
    errors,        \* clean_tabular's errors
    exit_code,     \* process exit status (meaningful when pc = "exited")
    message,       \* what sys.exit or an uncaught exception reported
    printed,       \* what the script printed on its own stdout
    did,           \* the steps the current run has performed
    fs0,           \* the two files as they were when the current run began
    runs           \* number of runs started so far

vars == <<pc, argv, temp_file, tabular_file, return_code, stdout, stderr,
          produced, idx, count, positive, errors, exit_code, message,
          printed, did, fs0, runs>>

(***************************************************************************)
(* Bounds of the model.                                                    *)
(***************************************************************************)
MaxRuns == 2
MaxToolLines == 2
MaxRawLines == 2

(***************************************************************************)
(* String literals of the script.                                          *)
(***************************************************************************)
VersionFlagShort == <<"-", "v">>
VersionFlagLong == <<"-", "-", "v", "e", "r", "s", "i", "o", "n">>
Selective == <<"s", "e", "l", "e", "c", "t", "i", "v", "e">>
Sensitive == <<"s", "e", "n", "s", "i", "t", "i", "v", "e">>
CutoffPrefix == <<"c", "u", "t", "o", "f", "f", "=">>
HeaderPrefix == <<"I", "d", ";", " ", "D", "e", "s", "c", "r", "i", "p", "t", "i", "o", "n", ";", " ", "S", "c", "o", "r", "e", ";">>
ExceptionMarker == <<"E", "x", "c", "e", "p", "t", "i", "o", "n", " ", "i", "n", " ", "t", "h", "r", "e", "a", "d">>
HeaderRow == <<"#", "I", "D", "\t", "D", "e", "s", "c", "r", "i", "p", "t", "i", "o", "n", "\t", "S", "c", "o", "r", "e", "\t", "E", "f", "f", "e", "c", "t", "i", "v", "e", "\n">>
TrueStr == <<"t", "r", "u", "e">>
TmpSuffix == <<".", "t", "m", "p">>
effective_t3_dir == <<"/", "o", "p", "t", "/", "E", "f", "f", "e", "c", "t", "i", "v", "e", "T", "3", "/">>
JarName == <<"T", "T", "S", "S", "_", "G", "U", "I", "-", "1", ".", "0", ".", "1", ".", "j", "a", "r">>

(***************************************************************************)
(* Python string methods.                                                  *)
(***************************************************************************)
Whitespace == {" ", "\t", "\n", "\r"}

StartsWith(s, p) == Len(s) >= Len(p) /\ SubSeq(s, 1, Len(p)) = p

EndsWith(s, p) == Len(s) >= Len(p) /\ SubSeq(s, Len(s) - Len(p) + 1, Len(s)) = p

\* s.count(c) for a one-character c
CountChar(s, c) == Cardinality({i \in 1..Len(s) : s[i] = c})

\* s.find(p) + 1: the first position of p in s, 0 when there is none
Find(s, p) ==
    LET hits == {i \in 1..(Len(s) - Len(p) + 1) : SubSeq(s, i, i + Len(p) - 1) = p}
    IN  IF hits = {} THEN 0 ELSE CHOOSE i \in hits : \A j \in hits : i <= j

\* s.rfind(c) + 1 for a one-character c
RFindChar(s, c) ==
    LET hits == {i \in 1..Len(s) : s[i] = c}
    IN  IF hits = {} THEN 0 ELSE CHOOSE i \in hits : \A j \in hits : i >= j

RECURSIVE RStrip(_, _)
\* s.rstrip(chars)
RStrip(s, chars) ==
    IF s # <<>> /\ s[Len(s)] \in chars
    THEN RStrip(SubSeq(s, 1, Len(s) - 1), chars)
    ELSE s

RECURSIVE LStrip(_, _)
LStrip(s, chars) ==
    IF s # <<>> /\ s[1] \in chars THEN LStrip(Tail(s), chars) ELSE s

\* s.strip()
Strip(s) == LStrip(RStrip(s, Whitespace), Whitespace)

RECURSIVE RSplit(_, _, _)
\* s.rsplit(c, maxsplit) for a one-character c: a list of strings
RSplit(s, c, maxsplit) ==
    LET i == RFindChar(s, c)
    IN  IF maxsplit = 0 \/ i = 0
        THEN <<s>>
        ELSE Append(RSplit(SubSeq(s, 1, i - 1), c, maxsplit - 1),
                    SubSeq(s, i + 1, Len(s)))

\* s.split(sep, 1)
SplitOnce(s, sep) ==
    LET i == Find(s, sep)
    IN  IF i = 0
        THEN <<s>>
        ELSE <<SubSeq(s, 1, i - 1), SubSeq(s, i + Len(sep), Len(s))>>

UpperCase == <<"A", "B", "C", "D", "E", "F", "G", "H", "I", "J", "K", "L", "M", "N", "O", "P", "Q", "R", "S", "T", "U", "V", "W", "X", "Y", "Z">>
LowerCase == <<"a", "b", "c", "d", "e", "f", "g", "h", "i", "j", "k", "l", "m", "n", "o", "p", "q", "r", "s", "t", "u", "v", "w", "x", "y", "z">>

LowerChar(c) ==
    IF \E k \in 1..Len(UpperCase) : UpperCase[k] = c
    THEN LowerCase[CHOOSE k \in 1..Len(UpperCase) : UpperCase[k] = c]
    ELSE c

\* s.lower()
Lower(s) == [i \in 1..Len(s) |-> LowerChar(s[i])]

RECURSIVE Join(_, _)
\* sep.join(parts)
Join(sep, parts) ==
    IF parts = <<>> THEN <<>>
    ELSE IF Len(parts) = 1 THEN parts[1]
    ELSE parts[1] \o sep \o Join(sep, Tail(parts))

Digits == {"0", "1", "2", "3", "4", "5", "6", "7", "8", "9"}

\* The text float() converts once surrounding whitespace and a sign are removed
FloatDigits(s) ==
    LET b == Strip(s)
    IN  IF b # <<>> /\ b[1] \in {"+", "-"} THEN Tail(b) ELSE b

\* Whether float(s) returns rather than raising ValueError, for the decimal
\* notation: optional sign, digits with at most one point, at least one digit.
FloatParses(s) ==
    LET u == FloatDigits(s)
    IN  /\ \A i \in 1..Len(u) : u[i] \in Digits \cup {"."}
        /\ CountChar(u, ".") <= 1
        /\ \E i \in 1..Len(u) : u[i] \in Digits

\* float(s) < 0, for an s that parses
FloatNegative(s) ==
    /\ Strip(s)[1] = "-"
    /\ \E i \in 1..Len(FloatDigits(s)) : FloatDigits(s)[i] \in Digits \ {"0"}

(***************************************************************************)
(* clean_tabular, one line at a time.                                      *)
(***************************************************************************)
\* lines 45-46 with the test for the column-header line forgotten
IsSkippedNoHeader(line) ==
    \/ line = <<>>
    \/ StartsWith(line, <<"#">>)

\* lines 45-46: the lines the loop passes over
IsSkipped(line) ==
    \/ line = <<>>
    \/ StartsWith(line, <<"#">>)
    \/ StartsWith(line, HeaderPrefix)

\* line 48; the interpreter runs without -O, so the assert is executed (with
\* -O the same lines fail the unpacking at line 53 and end the run at line 61)
AssertHolds(line) == CountChar(line, ";") >= 3

\* lines 53-59 with a naive split from the left
SplitFieldsLeft(line) ==
    LET s  == RStrip(line, {"\r", "\n"})
        a  == SplitOnce(s, <<";">>)
        b  == IF Len(a) = 2 THEN SplitOnce(a[2], <<";">>) ELSE <<>>
        c  == IF Len(b) = 2 THEN SplitOnce(b[2], <<";">>) ELSE <<>>
    IN  IF Len(c) # 2 THEN <<>> ELSE <<a[1], b[1], c[1], c[2]>>

\* lines 53-59: <<id, descr, score, effective>>, or <<>> for a ValueError
SplitFields(line) ==
    LET parts == RSplit(RStrip(line, {"\r", "\n"}), ";", 2)
    IN  IF Len(parts) # 3 THEN <<>>
        ELSE LET id_descr == parts[1]
             IN  IF Find(id_descr, <<";", " ">>) = 0 /\ EndsWith(id_descr, <<";">>)
                 THEN <<SubSeq(id_descr, 1, Len(id_descr) - 1), <<>>, parts[2], parts[3]>>
                 ELSE LET two == SplitOnce(id_descr, <<";", " ">>)
                      IN  IF Len(two) # 2 THEN <<>>
                          ELSE <<two[1], two[2], parts[2], parts[3]>>

\* lines 62-63: the text written for the four fields
FormatRow(fields) ==
    Join(<<"\t">>, [i \in 1..4 |-> Strip(fields[i])]) \o <<"\n">>

\* line 67: the test that increments positive
IsPositive(effective) == Lower(effective) = TrueStr

\* line 65: whether float(score) raises ValueError
FloatRaises(score) == ~FloatParses(score)

\* line 65: the test that increments errors
IsError(score) == FloatNegative(score)

(***************************************************************************)
(* The main script's decisions.                                            *)
(***************************************************************************)
\* line 22 with only the short flag tested
VersionRequestedShort(args) == \E i \in 1..Len(args) : args[i] = VersionFlagShort

\* line 22
VersionRequested(args) ==
    \E i \in 1..Len(args) : args[i] = VersionFlagShort \/ args[i] = VersionFlagLong

\* lines 35-36 with the "=" of the prefix forgotten
ThresholdAcceptedLoose(threshold) ==
    \/ threshold \in {Selective, Sensitive}
    \/ StartsWith(threshold, SubSeq(CutoffPrefix, 1, Len(CutoffPrefix) - 1))

\* lines 35-36
ThresholdAccepted(threshold) ==
    \/ threshold \in {Selective, Sensitive}
    \/ StartsWith(threshold, CutoffPrefix)

\* line 146 with the "count and" guard forgotten
AllErrorsUnguarded(n, e) == n = e

\* line 146
AllErrors(n, e) == n # 0 /\ n = e

\* os.path.join(a, b)
PathJoin(a, b) ==
    IF StartsWith(b, <<"/">>) THEN b
    ELSE IF a = <<>> \/ EndsWith(a, <<"/">>) THEN a \o b
    ELSE a \o <<"/">> \o b

\* the directory the wrapper is started in
Cwd == <<"/", "j", "o", "b">>

\* os.path.abspath(p), for a path without "." or ".." components
AbsPath(p) == PathJoin(Cwd, p)

\* line 20
effective_t3_jar == PathJoin(effective_t3_dir, JarName)

\* lines 107-118
Cmd(args) ==
    <<<<"j", "a", "v", "a">>, <<"-", "j", "a", "r">>, effective_t3_jar,
      <<"-", "f">>, AbsPath(args[4]),
      <<"-", "m">>, args[2],
      <<"-", "t">>, args[3],
      <<"-", "o">>, AbsPath(args[5] \o TmpSuffix),
      <<"-", "q">>>>

\* "%i" % n for the exit codes of the model
IntStr(n) == IF n = 0 THEN <<"0">> ELSE <<"1">>

\* lines 83-86: what the message is formatted from
FailureReport(rc, cmd_str, out, err) ==
    IF err # <<>> /\ out # <<>>
    THEN [fmt |-> "Return code %i from command:\n%s\n\n%s\n\n%s",
          args |-> <<IntStr(rc), cmd_str, out, err>>]
    ELSE [fmt |-> "Return code %i from command:\n%s\n%s",
          args |-> <<IntStr(rc), cmd_str, err>>]

\* line 81
ChildFailed(rc, err) == rc # 0 \/ StartsWith(err, ExceptionMarker)

(***************************************************************************)
(* Inputs.                                                                 *)
(***************************************************************************)
Prog == <<"e", "f", "f", "e", "c", "t", "i", "v", "e", "T", "3", ".", "p", "y">>
ModelArg == <<"T", "T", "S", "S", "_", "S", "T", "D", "-", "1", ".", "0", ".", "1", ".", "j", "a", "r">>
FastaArg == <<"i", "n", ".", "f", "a", "s", "t", "a">>
OutArg == <<"o", "u", "t", ".", "t", "a", "b", "u", "l", "a", "r">>
ExtraArg == <<"e", "x", "t", "r", "a">>
CutoffNum == <<"c", "u", "t", "o", "f", "f", "=", "0", ".", "5">>
CutoffWord == <<"c", "u", "t", "o", "f", "f", "=", "x">>
CutoffBare == <<"c", "u", "t", "o", "f", "f">>
Aggressive == <<"a", "g", "g", "r", "e", "s", "s", "i", "v", "e">>

Thresholds == {Selective, Sensitive, CutoffNum, CutoffWord, CutoffBare, Aggressive}

\* Command lines: every arity from none to five arguments, every threshold
\* shape, and the version flag in several positions.
ArgvSet ==
    {<<Prog>>, <<Prog, VersionFlagShort>>, <<Prog, ModelArg, VersionFlagLong>>,
     <<Prog, ModelArg, Selective, FastaArg>>,
     <<Prog, ModelArg, Selective, FastaArg, OutArg, ExtraArg>>,
     <<Prog, ModelArg, Aggressive, FastaArg, OutArg, VersionFlagShort>>}
    \cup {<<Prog, ModelArg, th, FastaArg, OutArg>> : th \in Thresholds}
    \cup {<<Prog, VersionFlagShort, th, FastaArg, OutArg>> : th \in {Selective, Aggressive}}
    \cup {<<Prog, ModelArg, th, FastaArg, VersionFlagLong>> : th \in {Selective, CutoffBare}}

\* What the child can print
OutText == <<"d", "o", "n", "e">>
ErrText == <<"w", "a", "r", "n", "i", "n", "g">>
ExcText == <<"E", "x", "c", "e", "p", "t", "i", "o", "n", " ", "i", "n", " ", "t", "h", "r", "e", "a", "d", " ", "\"", "m", "a", "i", "n", "\"">>

\* Outcomes of the child: <<return code, stdout, stderr>>
ChildOutcomes ==
    {<<0, <<>>, <<>>>>, <<0, OutText, ErrText>>, <<0, OutText, ExcText>>,
     <<1, <<>>, <<>>>>, <<1, OutText, <<>>>>, <<1, <<>>, ErrText>>,
     <<1, OutText, ErrText>>}

NoFile == [exists |-> FALSE, lines |-> <<>>]
File(ls) == [exists |-> TRUE, lines |-> ls]

RECURSIVE SeqsUpTo(_, _)
\* All sequences over S of length at most n
SeqsUpTo(S, n) ==
    IF n = 0 THEN {<<>>}
    ELSE LET shorter == SeqsUpTo(S, n - 1)
         IN  shorter \cup {Append(s, x) : s \in {t \in shorter : Len(t) = n - 1}, x \in S}

\* Raw lines the child writes in the whole-program specification
GoodLine == <<"i", "d", ";", " ", "d", "e", "s", "c", "r", ";", "1", ".", "5", ";", "t", "r", "u", "e", "\n">>
ErrorLine == <<"i", "d", "2", ";", " ", "d", "e", "s", "c", "r", ";", "-", "1", ";", "f", "a", "l", "s", "e", "\n">>
ShortLine == <<"i", "d", ";", "1", ".", "5", ";", "t", "r", "u", "e", "\n">>
ToolLines == {GoodLine, ErrorLine, ShortLine}
ToolFiles == SeqsUpTo(ToolLines, MaxToolLines)

\* Raw lines for the specification of clean_tabular: result lines put
\* together from fields, and the other kinds of line.
IdSet == {<<"i", "d">>, <<"#", "i", "d">>}
DescrSet == {<<"d", "e", "s", "c", "r">>, <<"p", "a", "r", "t", "1", ";", "p", "a", "r", "t", "2", ";", " ", "x">>}
ScoreSet == {<<" ", "1", ".", "5">>, <<"-", "1">>, <<" ", "n", "/", "a">>}
EffectiveSet == {<<" ", "t", "r", "u", "e">>, <<"T", "R", "U", "E">>, <<" ", "f", "a", "l", "s", "e">>}
Render(i, d, s, e) == i \o <<";", " ">> \o d \o <<";">> \o s \o <<";">> \o e \o <<"\n">>
FieldLines == {Render(i, d, s, e) : i \in IdSet, d \in DescrSet, s \in ScoreSet, e \in EffectiveSet}
CommentLine == <<"#", " ", "E", "f", "f", "e", "c", "t", "i", "v", "e", " ", "T", "3", "\n">>
HeaderLine == <<"I", "d", ";", " ", "D", "e", "s", "c", "r", "i", "p", "t", "i", "o", "n", ";", " ", "S", "c", "o", "r", "e", ";", " ", "E", "f", "f", "e", "c", "t", "i", "v", "e", "\n">>
BlankLine == <<"\n">>
NoDescrLine == <<"i", "d", ";", ";", "0", ".", "9", ";", "T", "R", "U", "E", "\n">>
NoSpaceLine == <<"i", "d", ";", "d", "e", "s", "c", "r", ";", "0", ".", "9", ";", "t", "r", "u", "e", "\n">>
CrLfLine == <<"i", "d", ";", " ", "d", "e", "s", "c", "r", ";", " ", "0", ".", "2", ";", " ", "f", "a", "l", "s", "e", "\r", "\n">>
RawLines == FieldLines \cup {CommentLine, HeaderLine, BlankLine, ShortLine, NoDescrLine, NoSpaceLine, CrLfLine}
RawFiles == SeqsUpTo(RawLines, MaxRawLines)

NoMessage == [fmt |-> "", args |-> <<>>]
NoPrint == [fmt |-> "", args |-> <<>>]

(***************************************************************************)
(* The script, step by step.                                               *)
(***************************************************************************)
model == argv[2]
threshold == argv[3]

\* sys.exit(arg), or an uncaught exception: the process ends
Exit(code, msg) ==
    /\ pc' = "exited"
    /\ exit_code' = code
    /\ message' = msg

Goto(label) ==
    /\ pc' = label
    /\ UNCHANGED <<exit_code, message>>

files == <<temp_file, tabular_file>>
child == <<return_code, stdout, stderr, produced>>
locals == <<idx, count, positive, errors>>

\* lines 22-25
VersionCheck ==
    /\ pc = "start"
    /\ IF VersionRequested(argv)
       THEN /\ printed' = [fmt |-> "Wrapper v0.0.16, TTSS_GUI-1.0.1.jar", args |-> <<>>]
            /\ Exit(0, NoMessage)
       ELSE /\ Goto("arity")
            /\ UNCHANGED printed
    /\ UNCHANGED <<argv, files, child, locals, did, fs0, runs>>

\* lines 27-30
ArityCheck ==
    /\ pc = "arity"
    /\ did' = did \cup {"arity"}
    /\ IF Len(argv) # 5
       THEN Exit(1, [fmt |-> "Require four arguments", args |-> <<>>])
       ELSE Goto("fasta")
    /\ UNCHANGED <<argv, files, child, locals, printed, fs0, runs>>

\* lines 32-33; whether the input file exists is the environment's answer
FastaCheck ==
    /\ pc = "fasta"
    /\ did' = did \cup {"fasta"}
    /\ \E isfile \in BOOLEAN :
          IF ~isfile
          THEN Exit(1, [fmt |-> "Input FASTA file not found: %s", args |-> <<argv[4]>>])
          ELSE Goto("threshold")
    /\ UNCHANGED <<argv, files, child, locals, printed, fs0, runs>>

\* lines 35-37
ThresholdCheck ==
    /\ pc = "threshold"
    /\ did' = did \cup {"threshold"}
    /\ IF ~ThresholdAccepted(threshold)
       THEN Exit(1, [fmt |-> "Threshold should be selective, sensitive, or cutoff=..., not %r",
                     args |-> <<threshold>>])
       ELSE Goto("dir")
    /\ UNCHANGED <<argv, files, child, locals, printed, fs0, runs>>

\* lines 89-90
DirCheck ==
    /\ pc = "dir"
    /\ did' = did \cup {"dir"}
    /\ \E isdir \in BOOLEAN :
          IF ~isdir
          THEN Exit(1, [fmt |-> "Effective T3 folder not found: %r", args |-> <<effective_t3_dir>>])
          ELSE Goto("jar")
    /\ UNCHANGED <<argv, files, child, locals, printed, fs0, runs>>

\* lines 92-93
JarCheck ==
    /\ pc = "jar"
    /\ did' = did \cup {"jar"}
    /\ \E isfile \in BOOLEAN :
          IF ~isfile
          THEN Exit(1, [fmt |-> "Effective T3 JAR file not found: %r", args |-> <<effective_t3_jar>>])
          ELSE Goto("module")
    /\ UNCHANGED <<argv, files, child, locals, printed, fs0, runs>>

\* lines 95-96
ModuleCheck ==
    /\ pc = "module"
    /\ did' = did \cup {"module"}
    /\ \E isdir \in BOOLEAN :
          IF ~isdir
          THEN Exit(1, [fmt |-> "Effective T3 module folder not found: %r", args |-> <<>>])
          ELSE Goto("model")
    /\ UNCHANGED <<argv, files, child, locals, printed, fs0, runs>>

\* lines 98-104 (the directory listing goes to stderr before the exit)
ModelCheck ==
    /\ pc = "model"
    /\ did' = did \cup {"model"}
    /\ \E isfile \in BOOLEAN :
          IF ~isfile
          THEN Exit(1, [fmt |-> "Effective T3 model JAR file not found: %r", args |-> <<model>>])
          ELSE Goto("chdir")
    /\ UNCHANGED <<argv, files, child, locals, printed, fs0, runs>>

\* lines 107-124
Chdir ==
    /\ pc = "chdir"
    /\ did' = did \cup {"chdir"}
    /\ \E ok \in BOOLEAN :
          IF ~ok
          THEN Exit(1, [fmt |-> "Could not change to Effective T3 folder: %s",
                        args |-> <<effective_t3_dir>>])
          ELSE Goto("popen")
    /\ UNCHANGED <<argv, files, child, locals, printed, fs0, runs>>

\* lines 74-77: subprocess.Popen starts the child or raises
Popen ==
    /\ pc = "popen"
    /\ \E started \in BOOLEAN :
          IF ~started
          THEN /\ Exit(1, [fmt |-> "Error invoking command:\n%s\n\n%s\n",
                           args |-> <<Join(<<" ">>, Cmd(argv))>>])
               /\ UNCHANGED did
          ELSE /\ Goto("communicate")
               /\ did' = did \cup {"spawn"}
    /\ UNCHANGED <<argv, files, child, locals, printed, fs0, runs>>

\* lines 79-80: the child runs to its end; it may or may not have written
\* the file named by -o
Communicate ==
    /\ pc = "communicate"
    /\ \E o \in ChildOutcomes :
          /\ return_code' = o[1]
          /\ stdout' = o[2]
          /\ stderr' = o[3]
    /\ \/ /\ produced' = FALSE
          /\ UNCHANGED temp_file
       \/ /\ produced' = TRUE
          /\ \E f \in ToolFiles : temp_file' = File(f)
    /\ did' = did \cup {"communicate"}
    /\ Goto("returncode")
    /\ UNCHANGED <<argv, tabular_file, locals, printed, fs0, runs>>

\* lines 81-86, and the return of run() when the child succeeded
ReturnCodeCheck ==
    /\ pc = "returncode"
    /\ IF ChildFailed(return_code, stderr)
       THEN /\ Exit(1, FailureReport(return_code, Join(<<" ">>, Cmd(argv)), stdout, stderr))
            /\ UNCHANGED <<return_code, stdout, stderr>>
       ELSE /\ Goto("isfile")
            /\ return_code' = 0
            /\ stdout' = <<>>
            /\ stderr' = <<>>
    /\ UNCHANGED <<argv, files, produced, locals, printed, did, fs0, runs>>

\* lines 128-129
TempFileCheck ==
    /\ pc = "isfile"
    /\ IF ~temp_file.exists
       THEN Exit(1, [fmt |-> "ERROR - No output file from Effective T3", args |-> <<>>])
       ELSE Goto("open")
    /\ did' = did \cup {"isfile"}
    /\ UNCHANGED <<argv, files, child, locals, printed, fs0, runs>>

\* lines 131-133 and 41-43
OpenFiles ==
    /\ pc = "open"
    /\ tabular_file' = File(<<HeaderRow>>)
    /\ idx' = 1
    /\ count' = 0
    /\ positive' = 0
    /\ errors' = 0
    /\ did' = did \cup {"open"}
    /\ Goto("clean")
    /\ UNCHANGED <<argv, temp_file, child, printed, fs0, runs>>

\* lines 44-68: one pass of the loop over raw_handle
CleanLine ==
    /\ pc = "clean"
    /\ idx <= Len(temp_file.lines)
    /\ LET line   == temp_file.lines[idx]
           fields == SplitFields(line)
       IN  IF IsSkipped(line)
           THEN /\ idx' = idx + 1
                /\ Goto("clean")
                /\ UNCHANGED <<tabular_file, count, positive, errors>>
           ELSE IF ~AssertHolds(line)
           THEN /\ Exit(1, [fmt |-> "AssertionError", args |-> <<line>>])
                /\ UNCHANGED <<tabular_file, locals>>
           ELSE IF fields = <<>>
           THEN /\ Exit(1, [fmt |-> "Problem parsing line:\n%s\n", args |-> <<line>>])
                /\ UNCHANGED <<tabular_file, locals>>
           ELSE /\ tabular_file' = File(Append(tabular_file.lines, FormatRow(fields)))
                /\ count' = count + 1
                /\ IF FloatRaises(fields[3])
                   THEN /\ Exit(1, [fmt |-> "ValueError", args |-> <<fields[3]>>])
                        /\ UNCHANGED <<idx, positive, errors>>
                   ELSE /\ errors' = IF IsError(fields[3]) THEN errors + 1 ELSE errors
                        /\ positive' = IF IsPositive(fields[4]) THEN positive + 1 ELSE positive
                        /\ idx' = idx + 1
                        /\ Goto("clean")
    /\ UNCHANGED <<argv, temp_file, child, printed, did, fs0, runs>>

\* lines 69 and 134-136: the loop is over, clean_tabular returns
CleanReturn ==
    /\ pc = "clean"
    /\ idx > Len(temp_file.lines)
    /\ did' = did \cup {"returned"}
    /\ Goto("remove")
    /\ UNCHANGED <<argv, files, child, locals, printed, fs0, runs>>

\* line 138 left out
KeepTemp ==
    /\ pc = "remove"
    /\ Goto("summary")
    /\ UNCHANGED <<argv, files, child, locals, printed, did, fs0, runs>>

\* line 138
RemoveTemp ==
    /\ pc = "remove"
    /\ temp_file' = NoFile
    /\ did' = did \cup {"remove"}
    /\ Goto("summary")
    /\ UNCHANGED <<argv, tabular_file, child, locals, printed, fs0, runs>>

\* lines 140-144
Summary ==
    /\ pc = "summary"
    /\ printed' = IF errors # 0
                  THEN [fmt |-> "%i sequences, %i positive, %i errors",
                        args |-> <<count, positive, errors>>]
                  ELSE [fmt |-> "%i/%i sequences positive", args |-> <<positive, count>>]
    /\ Goto("decide")
    /\ UNCHANGED <<argv, files, child, locals, did, fs0, runs>>

\* lines 146-148, and the end of the script
ExitDecision ==
    /\ pc = "decide"
    /\ IF AllErrors(count, errors)
       THEN Exit(1, [fmt |-> "All your sequences gave an error code", args |-> <<>>])
       ELSE Exit(0, NoMessage)
    /\ UNCHANGED <<argv, files, child, locals, printed, did, fs0, runs>>

\* The start of a process: everything but the file system is fresh
Fresh(args) ==
    /\ pc = "start"
    /\ argv = args
    /\ return_code = 0
    /\ stdout = <<>>
    /\ stderr = <<>>
    /\ produced = FALSE
    /\ idx = 0
    /\ count = 0
    /\ positive = 0
    /\ errors = 0
    /\ exit_code = 0
    /\ message = NoMessage
    /\ printed = NoPrint
    /\ did = {}

\* The wrapper is invoked again, with the same output path, on the file
\* system the previous run left
NextRun ==
    /\ pc = "exited"
    /\ runs < MaxRuns
    /\ runs' = runs + 1
    /\ fs0' = [temp |-> temp_file, out |-> tabular_file]
    /\ UNCHANGED files
    /\ \E args \in ArgvSet : argv' = args
    /\ pc' = "start"
    /\ return_code' = 0
    /\ stdout' = <<>>
    /\ stderr' = <<>>
    /\ produced' = FALSE
    /\ idx' = 0
    /\ count' = 0
    /\ positive' = 0
    /\ errors' = 0
    /\ exit_code' = 0
    /\ message' = NoMessage
    /\ printed' = NoPrint
    /\ did' = {}

Init ==
    /\ \E args \in ArgvSet : Fresh(args)
    /\ temp_file = NoFile
    /\ tabular_file = NoFile
    /\ fs0 = [temp |-> NoFile, out |-> NoFile]
    /\ runs = 1

Next ==
    \/ VersionCheck
    \/ ArityCheck
    \/ FastaCheck
    \/ ThresholdCheck
    \/ DirCheck
    \/ JarCheck
    \/ ModuleCheck
    \/ ModelCheck
    \/ Chdir
    \/ Popen
    \/ Communicate
    \/ ReturnCodeCheck
    \/ TempFileCheck
    \/ OpenFiles
    \/ CleanLine
    \/ CleanReturn
    \/ RemoveTemp
    \/ Summary
    \/ ExitDecision
    \/ NextRun

Spec == Init /\ [][Next]_vars

(***************************************************************************)
(* clean_tabular and what follows it, on any raw file: the state after     *)
(* line 133 of a run whose child wrote the raw file.                       *)
(***************************************************************************)
ValidArgv == <<Prog, ModelArg, Selective, FastaArg, OutArg>>

InitClean ==
    /\ pc = "clean"
    /\ argv = ValidArgv
    /\ \E f \in RawFiles : temp_file = File(f)
    /\ tabular_file = File(<<HeaderRow>>)
    /\ return_code = 0
    /\ stdout = <<>>
    /\ stderr = <<>>
    /\ produced = TRUE
    /\ idx = 1
    /\ count = 0
    /\ positive = 0
    /\ errors = 0
    /\ exit_code = 0
    /\ message = NoMessage
    /\ printed = NoPrint
    /\ did = {"arity", "fasta", "threshold", "dir", "jar", "module", "model",
              "chdir", "spawn", "communicate", "isfile", "open"}
    /\ fs0 = [temp |-> NoFile, out |-> NoFile]
    /\ runs = 1

NextClean ==
    \/ CleanLine
    \/ CleanReturn
    \/ RemoveTemp
    \/ Summary
    \/ ExitDecision

SpecClean == InitClean /\ [][NextClean]_vars

(***************************************************************************)
(* Vocabulary of the properties, stated on the text of the files and not   *)
(* through the script's own parsing.                                       *)
(***************************************************************************)
IsComment(line) == line # <<>> /\ line[1] = "#"

IsHeader(line) == StartsWith(line, HeaderPrefix)

IsBlank(line) == \A k \in 1..Len(line) : line[k] \in {"\r", "\n"}

\* trim(I) TAB trim(D) TAB trim(S) TAB trim(E) and a newline
Row(i, d, s, e) ==
    Strip(i) \o <<"\t">> \o Strip(d) \o <<"\t">> \o Strip(s) \o <<"\t">> \o Strip(e) \o <<"\n">>

\* Lines of the form I + "; " + D + ";" + S + ";" + E, with their fields
FormLines ==
    {[line |-> Render(i, d, s, e), row |-> Row(i, d, s, e), score |-> s] :
        i \in IdSet, d \in DescrSet, s \in ScoreSet, e \in EffectiveSet}

HasForm(line) == \E f \in FormLines : f.line = line

RowOf(line) == (CHOOSE f \in FormLines : f.line = line).row

\* Well-formed result lines: of the form above with a numeric score
WellFormed(line) ==
    /\ ~IsComment(line)
    /\ ~IsHeader(line)
    /\ \E f \in FormLines : f.line = line /\ FloatParses(f.score)

\* The lines of the raw file the loop has dealt with
Processed == SubSeq(temp_file.lines, 1, idx - 1)

\* The rows of the final output file, after the header row
Rows == Tail(tabular_file.lines)

\* The n-th tab-separated column of an output row
Column(row, n) == 
    LET body == SubSeq(row, 1, Len(row) - 1)
        tabs == <<0>> \o SelectSeq([k \in 1..Len(body) |-> IF body[k] = "\t" THEN k ELSE 0],
                                   LAMBDA k : k # 0) \o <<Len(body) + 1>>
    IN  SubSeq(body, tabs[n] + 1, tabs[n + 1] - 1)

VersionString == "Wrapper v0.0.16, TTSS_GUI-1.0.1.jar"

ThresholdMessage == "Threshold should be selective, sensitive, or cutoff=..., not %r"

FastaMessage == "Input FASTA file not found: %s"

NoOutputMessage == "ERROR - No output file from Effective T3"

NormalizationFatal == {"AssertionError", "Problem parsing line:\n%s\n", "ValueError"}

HasVersionFlag == \E k \in 1..Len(argv) : argv[k] \in {VersionFlagShort, VersionFlagLong}

FourArguments == Len(argv) = 5 /\ ~HasVersionFlag

FilesUntouched == temp_file = fs0.temp /\ tabular_file = fs0.out

\* "cutoff=" followed by a numeric string
NumericCutoff(t) ==
    /\ StartsWith(t, CutoffPrefix)
    /\ FloatParses(SubSeq(t, Len(CutoffPrefix) + 1, Len(t)))

\* "cutoff=" followed by anything
PrefixCutoff(t) == Len(t) >= 7 /\ \A k \in 1..7 : t[k] = CutoffPrefix[k]

Normalized == "returned" \in did

(***************************************************************************)
(* C1: a run that completes normalization having written N > 0 rows, all   *)
(* with a negative score, ends with a nonzero status and leaves the header *)
(* row followed by those N rows in the final output file; a run that       *)
(* completes normalization with no row, or with some row whose score is    *)
(* not negative, ends with status 0.                                       *)
(***************************************************************************)
AllRowsNegative == \A k \in 1..Len(Rows) : FloatNegative(Column(Rows[k], 3))

C1_ExitStatus ==
    (pc = "exited" /\ Normalized) =>
        /\ tabular_file.exists
        /\ tabular_file.lines[1] = HeaderRow
        /\ Len(Rows) = count
        /\ IF Len(Rows) > 0 /\ AllRowsNegative
           THEN exit_code # 0
           ELSE exit_code = 0

C1_Witness ==
    /\ pc = "exited"
    /\ Normalized
    /\ Len(Rows) = 2
    /\ AllRowsNegative
    /\ exit_code = 1

(***************************************************************************)
(* C2: on a raw file of comment lines, column-header lines and well-formed *)
(* result lines only, clean_tabular does not fail, its count is the number *)
(* of result lines, and the rows written are those of the result lines, in *)
(* the order of the input, with none for a header or comment line.         *)
(***************************************************************************)
OnlyKnownLines ==
    \A k \in 1..Len(temp_file.lines) :
        LET line == temp_file.lines[k]
        IN  IsComment(line) \/ IsHeader(line) \/ WellFormed(line)

ResultLines == SelectSeq(Processed, WellFormed)

C2_CountAndRows ==
    (temp_file.exists /\ pc \in {"clean", "remove", "exited"} /\ OnlyKnownLines) =>
        /\ pc # "exited"
        /\ count = Len(ResultLines)
        /\ Rows = [k \in 1..Len(ResultLines) |-> RowOf(ResultLines[k])]

C2_Witness ==
    /\ pc = "remove"
    /\ OnlyKnownLines
    /\ count = 1
    /\ \E k \in 1..Len(temp_file.lines) : IsHeader(temp_file.lines[k])

(***************************************************************************)
(* C3, as stated: for every raw line I + "; " + D + ";" + S + ";" + E the  *)
(* loop writes exactly the row trim(I) TAB trim(D) TAB trim(S) TAB trim(E) *)
(* and a newline.                                                          *)
(***************************************************************************)
AtLine == pc = "clean" /\ idx <= Len(temp_file.lines)

C3_Original ==
    [][(AtLine /\ HasForm(temp_file.lines[idx])) =>
          tabular_file'.lines = Append(tabular_file.lines, RowOf(temp_file.lines[idx]))]_vars

(***************************************************************************)
(* C3, amended: for every raw line I + "; " + D + ";" + S + ";" + E that   *)
(* does not start with "#" or with the column-header prefix, the loop      *)
(* writes exactly the row trim(I) TAB trim(D) TAB trim(S) TAB trim(E) and  *)
(* a newline, also when D contains semicolons.                             *)
(***************************************************************************)
C3_RowWritten ==
    [][(/\ AtLine
        /\ HasForm(temp_file.lines[idx])
        /\ ~IsComment(temp_file.lines[idx])
        /\ ~IsHeader(temp_file.lines[idx])) =>
          tabular_file'.lines = Append(tabular_file.lines, RowOf(temp_file.lines[idx]))]_vars

\* a line whose description holds semicolons has been written as four fields
C3_Witness ==
    /\ pc = "clean"
    /\ idx = 2
    /\ HasForm(temp_file.lines[1])
    /\ Rows = <<RowOf(temp_file.lines[1])>>
    /\ CountChar(Rows[1], "\t") = 3
    /\ CountChar(Column(Rows[1], 2), ";") = 2

(***************************************************************************)
(* C4, as stated: the child is spawned only if the threshold is            *)
(* "selective", "sensitive" or "cutoff=" followed by a numeric string; for *)
(* any other threshold the run ends with a nonzero status and the          *)
(* invalid-threshold message, before the child is spawned and before any   *)
(* file is written.                                                        *)
(***************************************************************************)
C4_Original ==
    FourArguments =>
        /\ "spawn" \in did => (threshold \in {Selective, Sensitive} \/ NumericCutoff(threshold))
        /\ (pc = "exited" /\ ~(threshold \in {Selective, Sensitive} \/ NumericCutoff(threshold))) =>
              /\ exit_code # 0
              /\ message.fmt \in {ThresholdMessage, FastaMessage}
              /\ "spawn" \notin did
              /\ FilesUntouched

(***************************************************************************)
(* C4, amended: the child is spawned only if the threshold is "selective", *)
(* "sensitive" or begins with "cutoff="; for any other threshold a run     *)
(* with four arguments and no version flag ends with a nonzero status      *)
(* before the child is spawned and before any file is written, with the    *)
(* invalid-threshold message when the input file exists.                   *)
(***************************************************************************)
C4_ThresholdGate ==
    /\ "spawn" \in did => (threshold \in {Selective, Sensitive} \/ PrefixCutoff(threshold))
    /\ (FourArguments /\ pc = "exited"
          /\ ~(threshold \in {Selective, Sensitive} \/ PrefixCutoff(threshold))) =>
              /\ exit_code # 0
              /\ message.fmt \in {ThresholdMessage, FastaMessage}
              /\ message.fmt = FastaMessage <=> "threshold" \notin did
              /\ "spawn" \notin did
              /\ FilesUntouched

C4_Witness ==
    /\ pc = "exited"
    /\ FourArguments
    /\ threshold = CutoffBare
    /\ message.fmt = ThresholdMessage
    /\ temp_file.exists

(***************************************************************************)
(* C5: whenever "-v" or "--version" is among the arguments, whatever the   *)
(* other arguments are, the run prints the version string and ends with    *)
(* status 0, having made no validation check, spawned no child and touched *)
(* no file.                                                                *)
(***************************************************************************)
C5_VersionFirst ==
    HasVersionFlag =>
        /\ did = {}
        /\ FilesUntouched
        /\ pc \in {"start", "exited"}
        /\ pc = "exited" => (exit_code = 0 /\ printed.fmt = VersionString /\ message = NoMessage)

C5_Witness ==
    /\ pc = "exited"
    /\ HasVersionFlag
    /\ Len(argv) = 5
    /\ argv[3] = CutoffBare
    /\ temp_file.exists

(***************************************************************************)
(* C6: a line of the raw file that is blank, starts with "#" or is the     *)
(* column-header line is passed over: no row is written, the counts stay   *)
(* as they are, and the loop goes on to the next line.                     *)
(***************************************************************************)
C6_SkipsLine ==
    [][(AtLine /\ LET line == temp_file.lines[idx]
                  IN  IsBlank(line) \/ IsComment(line) \/ IsHeader(line)) =>
          /\ pc' = "clean"
          /\ idx' = idx + 1
          /\ UNCHANGED <<tabular_file, count, positive, errors>>]_vars

(***************************************************************************)
(* C7: once clean_tabular has returned, positive is the number of written  *)
(* rows whose fourth column, as written, is "true" in any letter case.     *)
(***************************************************************************)
C7_PositiveCount ==
    Normalized =>
        positive = Cardinality({k \in 1..Len(Rows) : Lower(Column(Rows[k], 4)) = TrueStr})

(***************************************************************************)
(* C8: when the child ends with a nonzero code or with stderr starting     *)
(* with "Exception in thread", the run ends with a nonzero status and a    *)
(* message holding the command line and each of stdout and stderr that is  *)
(* not empty; otherwise run() returns.                                     *)
(***************************************************************************)
MessageParts == {message.args[k] : k \in 1..Len(message.args)}

C8_FailureReport ==
    ("communicate" \in did /\ pc \notin {"returncode"}) =>
        IF return_code # 0 \/ StartsWith(stderr, ExceptionMarker)
        THEN /\ pc = "exited"
             /\ exit_code # 0
             /\ Join(<<" ">>, Cmd(argv)) \in MessageParts
             /\ stdout # <<>> => stdout \in MessageParts
             /\ stderr # <<>> => stderr \in MessageParts
        ELSE "isfile" \in did \/ pc = "isfile"

(***************************************************************************)
(* C9: a run whose child ends successfully without writing its output file *)
(* ends with the "no output file" error and a nonzero status, and leaves   *)
(* the final output file as it was, whatever runs came before.             *)
(***************************************************************************)
C9_NoOutput ==
    (pc = "exited" /\ "isfile" \in did /\ ~produced) =>
        /\ message.fmt = NoOutputMessage
        /\ exit_code # 0
        /\ tabular_file = fs0.out

(***************************************************************************)
(* C10: in a run where clean_tabular returns, the all-errors case          *)
(* included, the temporary file is gone when the process ends; in a run    *)
(* ended by a fatal error inside clean_tabular the temporary file is still *)
(* there, and so is the final output file as far as it was written.        *)
(***************************************************************************)
C10_TempFile ==
    (pc = "exited" /\ "open" \in did) =>
        IF Normalized
        THEN ~temp_file.exists
        ELSE /\ message.fmt \in NormalizationFatal
             /\ exit_code # 0
             /\ temp_file.exists
             /\ tabular_file.exists
             /\ tabular_file.lines[1] = HeaderRow
             /\ Len(Rows) = count

C10_Witness ==
    /\ pc = "exited"
    /\ ~Normalized
    /\ message.fmt = "ValueError"
    /\ temp_file.exists
    /\ Len(Rows) = 2

====
